---- MODULE Spec2Model ----
(***************************************************************************)
(* A model of lifter (src/src/lib.rs): run_section / process, the page     *)
(* fetch with retry and backoff, the version gate, the download and the    *)
(* extraction of the target file, and the update of the version store.     *)
(*                                                                         *)
(* Specifications:                                                         *)
(*   SpecFetch  one page fetch (the retry loop of parse_html_page and      *)
(*              parse_json), request by request;                           *)
(*   SpecGate   the version gate of process on one input;                  *)
(*   Spec       the sections of one configuration file, each driven        *)
(*              through run_section by its own worker.                     *)
(***************************************************************************)
EXTENDS Integers, Sequences, FiniteSets, TLC

VARIABLES
    \* ---- one page fetch (parse_html_page / parse_json, the loop) ----
    fpc,                  \* position in the fetch: "idle","top","call","sleep","body","ok","err"
    method,               \* conf.method of the fetch: "api_json" or "scrape"
    status_as_error,      \* whether call() hands a status >= 400 back as Err
    attempts_remaining,   \* the loop's counter
    requests,             \* number of HTTP requests issued by the fetch
    responses,            \* statuses of the responses received, in order
    last_body,            \* body of the last response received
    sleeps,               \* durations (s) of the sleeps done, in order
    zzz,                  \* the sleep about to be done
    fbody,                \* the body the fetch returns
    ferr                  \* the error the fetch returns

VARIABLES
    \* ---- the sections of one configuration file (run_section, process) ----
    conf,                 \* the Ini the caller loaded and hands to every run_section
    store,                \* the configuration file on disk (the version store)
    fs,                   \* the file at each section's desired_filename, or Absent
    fs0,                  \* fs when the runs started
    pc,                   \* each section's position in run_section / process
    cf_version,           \* cf.version of each run
    hit,                  \* the Hit of each run
    ext,                  \* the `ext` process chose
    buf,                  \* the downloaded bytes
    conf_write,           \* the Ini reloaded by from_file before the write
    result,               \* how run_section ended: "ok", "err" (Err returned), "panic"
    why,                  \* the return or failure point the run ended at
    dlreq,                \* artifact download requests issued by the run
    fwrites               \* files created or rewritten by the run

fetchVars == <<fpc, method, status_as_error, attempts_remaining, requests,
               responses, last_body, sleeps, zzz, fbody, ferr>>

runVars == <<conf, store, fs, fs0, pc, cf_version, hit, ext, buf, conf_write,
             result, why, dlreq, fwrites>>

VARIABLES
    \* ---- the version gate of process on one input ----
    gate_in,              \* the hit's version, the recorded version, whether the target exists
    gate_out              \* what the gate did: "proceed", "skip", "panic"

gateVars == <<gate_in, gate_out>>

VARIABLES
    \* ---- run_section's resolution of one section, and the extractors ----
    rs_in,                \* the section's own fields and the name of its template
    rs_out,               \* the Config run_section built from them, or how it ended
    fn_in,                \* the input of an extractor applied on its own
    fn_out                \* what the extractor returned or wrote

pureVars == <<rs_in, rs_out, fn_in, fn_out>>

VARIABLES
    \* ---- the UI state (App of app.rs) and the events it is handed ----
    app,                  \* the App: active_jobs, updated, downloads
    event,                \* the ProgressEvent handle_event was last called with
    handled               \* how many events handle_event has been called with

appVars == <<app, event, handled>>

vars == <<fetchVars, runVars, gateVars, pureVars, appVars>>

Min(a, b) == IF a <= b THEN a ELSE b

(***************************************************************************)
(* Data of a section run.                                                  *)
(***************************************************************************)

\* The sections of the configuration file (none of them a template).
Sections == {"a", "b"}

\* Option<String>: None and Some(v), for version strings and for other strings.
NoVersion == [some |-> FALSE, v |-> <<>>]
SomeVersion(v) == [some |-> TRUE, v |-> v]
NoString == [some |-> FALSE, v |-> ""]
SomeString(v) == [some |-> TRUE, v |-> v]

\* Version strings, as the bytes of their characters ('.' is 46, '0' is 48,
\* '1' is 49, '9' is 57): "1", "10", "9".
V1 == <<49>>
V10 == <<49, 48>>
V9 == <<57>>
Versions == {V1, V10, V9}

\* Rust's `<` on strings: lexicographic on the bytes, a proper prefix is smaller.
RECURSIVE LexLess(_, _)
LexLess(x, y) ==
    IF y = <<>> THEN FALSE
    ELSE IF x = <<>> THEN TRUE
    ELSE IF Head(x) < Head(y) THEN TRUE
    ELSE IF Head(x) > Head(y) THEN FALSE
    ELSE LexLess(Tail(x), Tail(y))

\* `&hit.version <= existing_version`
LexLeq(x, y) == x = y \/ LexLess(x, y)

\* `download_url.ends_with(suffix)`
EndsWith(s, suffix) ==
    /\ Len(s) >= Len(suffix)
    /\ SubSeq(s, Len(s) - Len(suffix) + 1, Len(s)) = suffix

\* `s.char_indices().rev().nth(n).map(|(i, _)| &s[i..])`: nth(n) is the
\* (n+1)-th character from the end; None when the string has no such character.
SliceFromEnd(s, n) ==
    IF Len(s) > n
    THEN [some |-> TRUE, v |-> SubSeq(s, Len(s) - n, Len(s))]
    ELSE [some |-> FALSE, v |-> <<>>]

Contains(s, c) == \E i \in 1..Len(s) : s[i] = c

\* `slice_from_end(download_url, 8)`
SuffixLen == 8

TarGz == <<".", "t", "a", "r", ".", "g", "z">>
Tgz == <<".", "t", "g", "z">>
Gz == <<".", "g", "z">>
TarXz == <<".", "t", "a", "r", ".", "x", "z">>
Txz == <<".", "t", "x", "z">>
Zip == <<".", "z", "i", "p">>
Exe == <<".", "e", "x", "e">>
Com == <<".", "c", "o", "m">>
Appimage == <<".", "a", "p", "p", "i", "m", "a", "g", "e">>
AppImage == <<".", "A", "p", "p", "I", "m", "a", "g", "e">>

\* The chain with `.gz` tested first.
MutExtOf(url) ==
    IF EndsWith(url, Gz) THEN ".gz"
    ELSE IF EndsWith(url, TarGz) \/ EndsWith(url, Tgz) THEN ".tar.gz"
    ELSE IF EndsWith(url, TarXz) \/ EndsWith(url, Txz) THEN ".tar.xz"
    ELSE IF EndsWith(url, Zip) THEN ".zip"
    ELSE IF EndsWith(url, Exe) THEN ".exe"
    ELSE IF EndsWith(url, Com) THEN ".com"
    ELSE IF EndsWith(url, Appimage) THEN ".appimage"
    ELSE IF EndsWith(url, AppImage) THEN ".AppImage"
    ELSE IF SliceFromEnd(url, SuffixLen).some
         THEN IF ~Contains(SliceFromEnd(url, SuffixLen).v, ".") THEN "" ELSE "unknown"
         ELSE "unknown"

\* The `ext` chain of process; "unknown" stands for the two `return Ok(None)`.
ExtOf(url) ==
    IF EndsWith(url, TarGz) \/ EndsWith(url, Tgz) THEN ".tar.gz"
    ELSE IF EndsWith(url, Gz) THEN ".gz"
    ELSE IF EndsWith(url, TarXz) \/ EndsWith(url, Txz) THEN ".tar.xz"
    ELSE IF EndsWith(url, Zip) THEN ".zip"
    ELSE IF EndsWith(url, Exe) THEN ".exe"
    ELSE IF EndsWith(url, Com) THEN ".com"
    ELSE IF EndsWith(url, Appimage) THEN ".appimage"
    ELSE IF EndsWith(url, AppImage) THEN ".AppImage"
    ELSE IF SliceFromEnd(url, SuffixLen).some
         THEN IF ~Contains(SliceFromEnd(url, SuffixLen).v, ".") THEN "" ELSE "unknown"
         ELSE "unknown"

\* Download URLs a page gives in the model.
DownloadUrls == {
    <<"r", "g", ".", "t", "a", "r", ".", "g", "z">>,
    <<"r", "g", ".", "t", "a", "r", ".", "x", "z">>,
    <<"r", "g", ".", "z", "i", "p">>,
    <<"r", "g", ".", "g", "z">>,
    <<"r", "g", ".", "e", "x", "e">>,
    <<"d", "l", "/", "r", "g", "-", "l", "i", "n", "u", "x">>,
    <<"r", "g", ".", "d", "e", "b">> }

NoHit == [version |-> <<>>, download_url |-> <<>>]
Hits == [version : Versions, download_url : DownloadUrls]

\* File modes, from their octal digits: 0o644 (a file made by File::create
\* under the usual umask), 0o744, and the 0o755 of set_executable.
Octal(u, g, o) == u * 64 + g * 8 + o
Mode644 == Octal(6, 4, 4)
Mode744 == Octal(7, 4, 4)
Mode755 == Octal(7, 5, 5)

\* `perms.mode() & 0o111 == 0` is the negation of this.
HasExecBit(mode) ==
    \/ (mode \div 64) % 2 = 1
    \/ (mode \div 8) % 2 = 1
    \/ mode % 2 = 1

\* The file at a path: absent, or its bytes and mode.
Absent == [exists |-> FALSE, data |-> "", mode |-> 0]
File(data, mode) == [exists |-> TRUE, data |-> data, mode |-> mode]

\* std::fs::File::create: a new file gets the default mode, an existing file
\* is truncated and keeps its mode.
Created(old, data) == File(data, IF old.exists THEN old.mode ELSE Mode644)

\* Downloaded payloads: an archive with a member for either section, an
\* archive without, and bytes that are no archive of the expected format.
Entry(path, data, mode) == [path |-> path, data |-> data, mode |-> mode]
ArchGood ==
    [bytes |-> "arch_good", valid |-> TRUE,
     entries |-> << Entry(<<"rel", "README">>, "readme", Mode644),
                    Entry(<<"rel", "bin", "a">>, "bin_a", Mode755),
                    Entry(<<"rel", "bin", "b">>, "bin_b", Mode744) >>]
ArchNoMatch ==
    [bytes |-> "arch_nomatch", valid |-> TRUE,
     entries |-> << Entry(<<"rel", "README">>, "readme", Mode644),
                    Entry(<<"a", "README">>, "readme2", Mode644) >>]
Corrupt == [bytes |-> "corrupt", valid |-> FALSE, entries |-> <<>>]
NoBuf == [bytes |-> "", valid |-> FALSE, entries |-> <<>>]
Payloads == {ArchGood, ArchNoMatch, Corrupt}

\* `path.file_name()`: the last component.
FileName(path) == path[Len(path)]

\* `Regex::new("^{target_filename_to_extract_from_archive}$")` and is_match,
\* for a pattern without metacharacters: the whole name equals the pattern.
ReMatch(pattern, name) == name = pattern

\* The index of the first entry whose file name matches, 0 when none does.
FirstMatch(entries, pattern) ==
    LET hits == {i \in 1..Len(entries) : ReMatch(pattern, FileName(entries[i].path))}
    IN IF hits = {} THEN 0 ELSE CHOOSE i \in hits : \A j \in hits : i <= j

\* extract_target_from_zipfile walks `archive.file_names()`, the keys of the
\* zip reader's name table: a hash map in zip 0.5 / 0.6 (an order of its own,
\* new in every process), an insertion-ordered map in later releases.  The
\* entries that can come first among the matching ones: any of them; {0}
\* when none matches.
ZipFirstMatches(entries, pattern) ==
    LET hits == {i \in 1..Len(entries) : ReMatch(pattern, FileName(entries[i].path))}
    IN IF hits = {} THEN {0} ELSE hits

\* flate2's GzDecoder on the bytes of a plain .gz download.
Gunzip(bytes) == IF bytes = "arch_good" THEN "plain_good" ELSE "plain_nomatch"

\* IniItemVersion writing the section anew, with the version as its only key.
MutIniItemVersion(ini, section, value) ==
    [ini EXCEPT ![section] = [page_url |-> NoString, version |-> SomeVersion(value)]]

\* tini: Ini::section(name).item(key, value) sets one key of one section.
IniItemVersion(ini, section, value) ==
    [ini EXCEPT ![section] = [@ EXCEPT !.version = SomeVersion(value)]]

\* No section run is under way (the state of the run variables in SpecFetch).
RunIdle ==
    /\ conf = [s \in Sections |-> [page_url |-> NoString, version |-> NoVersion]]
    /\ store = conf
    /\ fs = [s \in Sections |-> Absent]
    /\ fs0 = fs
    /\ pc = [s \in Sections |-> "idle"]
    /\ cf_version = [s \in Sections |-> NoVersion]
    /\ hit = [s \in Sections |-> NoHit]
    /\ ext = [s \in Sections |-> "none"]
    /\ buf = [s \in Sections |-> NoBuf]
    /\ conf_write = [s \in Sections |-> conf]
    /\ result = [s \in Sections |-> "running"]
    /\ why = [s \in Sections |-> "none"]
    /\ dlreq = [s \in Sections |-> 0]
    /\ fwrites = [s \in Sections |-> 0]

\* GateDecision with `<` for `<=`.
MutGateDecision(exists, found, recorded) ==
    IF ~recorded.some THEN "panic"
    ELSE IF exists /\ LexLess(found, recorded.v) THEN "skip"
    ELSE "proceed"

\* The version gate, process 259-268: `conf.version.as_ref().unwrap()` panics
\* without a recorded version; then
\* `if target_file_already_exists(conf) && &hit.version <= existing_version`
\* skips, and otherwise the run proceeds.
GateDecision(exists, found, recorded) ==
    IF ~recorded.some THEN "panic"
    ELSE IF exists /\ LexLeq(found, recorded.v) THEN "skip"
    ELSE "proceed"

\* The gate is not being looked at on its own (gate variables outside SpecGate).
GateIdle ==
    /\ gate_in = [exists |-> FALSE, found |-> <<>>, recorded |-> NoVersion]
    /\ gate_out = "idle"

\* Neither the resolution nor an extractor is being looked at on its own.
PureIdle ==
    /\ rs_in = [kind |-> "idle"]
    /\ rs_out = [kind |-> "idle"]
    /\ fn_in = [kind |-> "idle"]
    /\ fn_out = [kind |-> "idle"]

\* Section names of the packages the UI is told about: the second one is
\* part of the third.
PackageNames == { <<"f", "d">>, <<"g", "o">>, <<"h", "u", "g", "o">> }

NoProgress == [some |-> FALSE, v |-> 0]

\* `App::default()`: no job, no update, no download.
AppDefault ==
    [active_jobs |-> <<>>, updated |-> <<>>,
     downloads |-> [n \in PackageNames |-> NoProgress]]

\* The UI has been handed no event.
AppIdle ==
    /\ app = AppDefault
    /\ event = [kind |-> "none"]
    /\ handled = 0

\* No page fetch is under way (the state of the fetch variables in Spec).
FetchIdle ==
    /\ fpc = "idle"
    /\ method = "scrape"
    /\ status_as_error = TRUE
    /\ attempts_remaining = 0
    /\ requests = 0
    /\ responses = <<>>
    /\ last_body = "none"
    /\ sleeps = <<>>
    /\ zzz = 0
    /\ fbody = "none"
    /\ ferr = [kind |-> "none"]

(***************************************************************************)
(* The page fetch: lib.rs 470-508 (parse_html_page) and 378-415            *)
(* (parse_json) hold the same loop, statement for statement.               *)
(***************************************************************************)

\* `let mut attempts_remaining = 10;`
MaxAttempts == 10
\* `((10 - attempts_remaining) * 4).min(60)`
BackoffStep == 4
BackoffCap == 60

\* The statuses of the match arm that sleeps and retries.
TransientStatus == {408, 425, 429, 500, 502, 503, 504}

\* `200..=299 => break resp`
IsSuccess(code) == code >= 200 /\ code <= 299

\* IsTransient with 404 among the retried statuses.
MutIsTransient(code) == code \in TransientStatus \cup {404}

\* `408 | 425 | 429 | 500 | 502 | 503 | 504 =>`
IsTransient(code) == code \in TransientStatus

\* ureq 2.x (the client whose API the code uses: get().set().call()? and
\* into_string()) returns Err(Error::Status(code, response)) from call() for
\* every status >= 400; the match arms of the loop are written for a client
\* that returns such a response as Ok.  status_as_error holds which of the
\* two the build's client does.
IsErrorStatus(code) == code >= 400

\* Statuses and bodies the server answers with in the model.
ServerStatus == {200, 304, 404, 408, 503}
Bodies == {"body1", "body2"}

Methods == {"api_json", "scrape"}

Backoff(remaining) == Min(BackoffCap, (MaxAttempts - remaining) * BackoffStep)

InitFetch ==
    /\ AppIdle
    /\ fpc = "top"
    /\ method \in Methods
    /\ status_as_error \in BOOLEAN
    /\ attempts_remaining = MaxAttempts
    /\ requests = 0
    /\ responses = <<>>
    /\ last_body = "none"
    /\ sleeps = <<>>
    /\ zzz = 0
    /\ fbody = "none"
    /\ ferr = [kind |-> "none"]
    /\ RunIdle
    /\ GateIdle
    /\ PureIdle

\* `if attempts_remaining == 0 { return Err(..) } else { attempts_remaining -= 1 }`
LoopTop ==
    /\ fpc = "top"
    /\ IF attempts_remaining = 0
       THEN /\ fpc' = "err"
            /\ ferr' = [kind |-> "exhausted"]
            /\ UNCHANGED attempts_remaining
       ELSE /\ fpc' = "call"
            /\ attempts_remaining' = attempts_remaining - 1
            /\ UNCHANGED ferr
    /\ UNCHANGED <<method, status_as_error, requests, responses, last_body, sleeps, zzz, fbody, runVars, gateVars, pureVars, appVars>>

\* `ureq::get(url).set(..).call()?` fails without a response (connection or
\* transport failure; a failure while the body is read ends the fetch the same
\* way): `?` returns the error from the function.
CallFails ==
    /\ fpc = "call"
    /\ requests' = requests + 1
    /\ fpc' = "err"
    /\ ferr' = [kind |-> "transport"]
    /\ UNCHANGED <<method, status_as_error, attempts_remaining, responses, last_body, sleeps, zzz, fbody, runVars, gateVars, pureVars, appVars>>

\* What the loop does with a response: the `?` after call(), then the match.
OnResponse(code, body) ==
    IF status_as_error /\ IsErrorStatus(code)
    THEN /\ fpc' = "err"
         /\ ferr' = [kind |-> "status", status |-> code, body |-> body]
         /\ UNCHANGED <<zzz, fbody>>
    ELSE IF IsSuccess(code)
    THEN /\ fpc' = "body"
         /\ fbody' = body
         /\ UNCHANGED <<zzz, ferr>>
    ELSE IF IsTransient(code)
    THEN /\ fpc' = "sleep"
         /\ zzz' = Backoff(attempts_remaining)
         /\ UNCHANGED <<fbody, ferr>>
    ELSE /\ fpc' = "err"
         /\ ferr' = [kind |-> "unexpected", status |-> code, body |-> body]
         /\ UNCHANGED <<zzz, fbody>>

\* The request is answered with a response.
CallResponds ==
    /\ fpc = "call"
    /\ requests' = requests + 1
    /\ \E code \in ServerStatus, body \in Bodies :
          /\ responses' = Append(responses, code)
          /\ last_body' = body
          /\ OnResponse(code, body)
    /\ UNCHANGED <<method, status_as_error, attempts_remaining, sleeps, runVars, gateVars, pureVars, appVars>>

\* `std::thread::sleep(Duration::from_secs(zzz)); continue;`
Sleep ==
    /\ fpc = "sleep"
    /\ sleeps' = Append(sleeps, zzz)
    /\ fpc' = "top"
    /\ UNCHANGED <<method, status_as_error, attempts_remaining, requests, responses, last_body, zzz, fbody, ferr, runVars, gateVars, pureVars, appVars>>

\* `let body = resp.into_string()?;` after the loop: the fetch has its page.
ReadBody ==
    /\ fpc = "body"
    /\ fpc' = "ok"
    /\ UNCHANGED <<method, status_as_error, attempts_remaining, requests, responses, last_body, sleeps, zzz, fbody, ferr, runVars, gateVars, pureVars, appVars>>

NextFetch == LoopTop \/ CallFails \/ CallResponds \/ Sleep \/ ReadBody

SpecFetch == InitFetch /\ [][NextFetch]_vars

\* A worker runs its fetch on: the loop waits for nothing but the response
\* and the sleep.
SpecFetchFair == SpecFetch /\ WF_vars(NextFetch)

(***************************************************************************)
(* run_section and process, one worker per section.                        *)
(***************************************************************************)

\* A section of the file when the runs start: without page_url, or with one
\* and with or without a version on record.
InitSections ==
    {[page_url |-> NoString, version |-> NoVersion]}
    \cup [page_url : {SomeString("url")},
          version : {NoVersion, SomeVersion(V10), SomeVersion(V9)}]

\* The target file when the runs start.
InitFiles == {Absent, File("old", Mode644)}

Init ==
    /\ AppIdle
    /\ FetchIdle
    /\ conf \in [Sections -> InitSections]
    /\ store = conf
    /\ fs \in [Sections -> InitFiles]
    /\ fs0 = fs
    /\ GateIdle
    /\ PureIdle
    /\ pc = [s \in Sections |-> "start"]
    /\ cf_version = [s \in Sections |-> NoVersion]
    /\ hit = [s \in Sections |-> NoHit]
    /\ ext = [s \in Sections |-> "none"]
    /\ buf = [s \in Sections |-> NoBuf]
    /\ conf_write = [s \in Sections |-> conf]
    /\ result = [s \in Sections |-> "running"]
    /\ why = [s \in Sections |-> "none"]
    /\ dlreq = [s \in Sections |-> 0]
    /\ fwrites = [s \in Sections |-> 0]

\* run_section or process returns (or panics) at the point `reason`.
End(s, res, reason) ==
    /\ pc' = [pc EXCEPT ![s] = "done"]
    /\ result' = [result EXCEPT ![s] = res]
    /\ why' = [why EXCEPT ![s] = reason]

Goto(s, label) ==
    /\ pc' = [pc EXCEPT ![s] = label]
    /\ UNCHANGED <<result, why>>

\* run_section, lines 148-210: the section's fields are read from `conf`;
\* without a page_url the section is skipped.
Resolve(s) ==
    /\ pc[s] = "start"
    /\ IF ~conf[s].page_url.some
       THEN /\ End(s, "ok", "missing_page_url")
            /\ UNCHANGED cf_version
       ELSE /\ cf_version' = [cf_version EXCEPT ![s] = conf[s].version]
            /\ Goto(s, "fetch")
    /\ UNCHANGED <<conf, store, fs, fs0, hit, ext, buf, conf_write, dlreq, fwrites, fetchVars, gateVars, pureVars, appVars>>

\* process, 249-252: the page fetch or the extraction returns an error.
PageFails(s) ==
    /\ pc[s] = "fetch"
    /\ End(s, "err", "page_error")
    /\ UNCHANGED <<conf, store, fs, fs0, cf_version, hit, ext, buf, conf_write, dlreq, fwrites, fetchVars, gateVars, pureVars, appVars>>

\* process, 254-257: the extractor found no hit (no anchor or candidate URL
\* matches, or no version element): `None => return Ok(None)`.
PageNoHit(s) ==
    /\ pc[s] = "fetch"
    /\ \E reason \in {"no_anchor_match", "no_version_element"} : End(s, "ok", reason)
    /\ UNCHANGED <<conf, store, fs, fs0, cf_version, hit, ext, buf, conf_write, dlreq, fwrites, fetchVars, gateVars, pureVars, appVars>>

\* process, 254-255: the extractor found a hit.
PageHit(s) ==
    /\ pc[s] = "fetch"
    /\ \E h \in Hits : hit' = [hit EXCEPT ![s] = h]
    /\ Goto(s, "gate")
    /\ UNCHANGED <<conf, store, fs, fs0, cf_version, ext, buf, conf_write, dlreq, fwrites, fetchVars, gateVars, pureVars, appVars>>

\* target_file_already_exists: desired_filename is the section's file.
TargetFileAlreadyExists(s) == fs[s].exists

\* Gate going on to the download whatever the decision.
MutGate(s) ==
    /\ pc[s] = "gate"
    /\ Goto(s, "ext")
    /\ UNCHANGED <<conf, store, fs, fs0, cf_version, hit, ext, buf, conf_write, dlreq, fwrites, fetchVars, gateVars, pureVars, appVars>>

\* process, 259-268: the version gate of the run.
Gate(s) ==
    /\ pc[s] = "gate"
    /\ LET d == GateDecision(TargetFileAlreadyExists(s), hit[s].version, cf_version[s]) IN
       IF d = "panic"
       THEN End(s, "panic", "unwrap_none_version")
       ELSE IF d = "skip"
       THEN End(s, "ok", "not_newer")
       ELSE Goto(s, "ext")
    /\ UNCHANGED <<conf, store, fs, fs0, cf_version, hit, ext, buf, conf_write, dlreq, fwrites, fetchVars, gateVars, pureVars, appVars>>

\* ChooseExt with the artifact requested before the suffix is looked at.
MutChooseExt(s) ==
    /\ pc[s] = "ext"
    /\ dlreq' = [dlreq EXCEPT ![s] = @ + 1]
    /\ IF ExtOf(hit[s].download_url) = "unknown"
       THEN /\ End(s, "ok", "unknown_extension")
            /\ UNCHANGED ext
       ELSE /\ ext' = [ext EXCEPT ![s] = ExtOf(hit[s].download_url)]
            /\ Goto(s, "download")
    /\ UNCHANGED <<conf, store, fs, fs0, cf_version, hit, buf, conf_write, fwrites, fetchVars, gateVars, pureVars, appVars>>

\* process, 270-319: the container kind from the URL's suffix.
ChooseExt(s) ==
    /\ pc[s] = "ext"
    /\ IF ExtOf(hit[s].download_url) = "unknown"
       THEN /\ End(s, "ok", "unknown_extension")
            /\ UNCHANGED ext
       ELSE /\ ext' = [ext EXCEPT ![s] = ExtOf(hit[s].download_url)]
            /\ Goto(s, "download")
    /\ UNCHANGED <<conf, store, fs, fs0, cf_version, hit, buf, conf_write, dlreq, fwrites, fetchVars, gateVars, pureVars, appVars>>

\* process, 321-326: the artifact is requested; the request or the read fails.
DownloadFails(s) ==
    /\ pc[s] = "download"
    /\ dlreq' = [dlreq EXCEPT ![s] = @ + 1]
    /\ End(s, "err", "download_error")
    /\ UNCHANGED <<conf, store, fs, fs0, cf_version, hit, ext, buf, conf_write, fwrites, fetchVars, gateVars, pureVars, appVars>>

\* process, 321-326: the artifact is requested and read into `buf`.
Download(s) ==
    /\ pc[s] = "download"
    /\ dlreq' = [dlreq EXCEPT ![s] = @ + 1]
    /\ \E p \in Payloads : buf' = [buf EXCEPT ![s] = p]
    /\ Goto(s, "unpack")
    /\ UNCHANGED <<conf, store, fs, fs0, cf_version, hit, ext, conf_write, fwrites, fetchVars, gateVars, pureVars, appVars>>

WriteFile(s, f) ==
    /\ fs' = [fs EXCEPT ![s] = f]
    /\ fwrites' = [fwrites EXCEPT ![s] = @ + 1]

\* extract_target_from_tarfile / extract_target_from_tarxz: the first entry
\* whose file name matches is unpacked (bytes and header mode) to
\* desired_filename; without a match a warning and a normal return.  Every
\* failure of the decoder is an unwrap() panic.
UnpackTar(s) ==
    /\ pc[s] = "unpack"
    /\ ext[s] \in {".tar.gz", ".tar.xz"}
    /\ LET i == FirstMatch(buf[s].entries, s) IN
       IF ~buf[s].valid
       THEN /\ End(s, "panic", "unwrap_corrupt_archive")
            /\ UNCHANGED <<fs, fwrites>>
       ELSE IF i = 0
       THEN /\ Goto(s, "chmod")
            /\ UNCHANGED <<fs, fwrites>>
       ELSE /\ WriteFile(s, File(buf[s].entries[i].data, buf[s].entries[i].mode))
            /\ Goto(s, "chmod")
    /\ UNCHANGED <<conf, store, fs0, cf_version, hit, ext, buf, conf_write, dlreq, fetchVars, gateVars, pureVars, appVars>>

\* extract_target_from_zipfile: as for tar, the file made by File::create; a
\* failure of the zip reader is returned as an error.
UnpackZip(s) ==
    /\ pc[s] = "unpack"
    /\ ext[s] = ".zip"
    /\ \E i \in ZipFirstMatches(buf[s].entries, s) :
       IF ~buf[s].valid
       THEN /\ End(s, "err", "zip_error")
            /\ UNCHANGED <<fs, fwrites>>
       ELSE IF i = 0
       THEN /\ Goto(s, "chmod")
            /\ UNCHANGED <<fs, fwrites>>
       ELSE /\ WriteFile(s, Created(fs[s], buf[s].entries[i].data))
            /\ Goto(s, "chmod")
    /\ UNCHANGED <<conf, store, fs0, cf_version, hit, ext, buf, conf_write, dlreq, fetchVars, gateVars, pureVars, appVars>>

\* extract_target_from_gzfile: the decompressed stream goes to
\* desired_filename whole; a failure of the decoder is an unwrap() panic.
UnpackGz(s) ==
    /\ pc[s] = "unpack"
    /\ ext[s] = ".gz"
    /\ IF ~buf[s].valid
       THEN /\ End(s, "panic", "unwrap_corrupt_gzip")
            /\ UNCHANGED <<fs, fwrites>>
       ELSE /\ WriteFile(s, Created(fs[s], Gunzip(buf[s].bytes)))
            /\ Goto(s, "chmod")
    /\ UNCHANGED <<conf, store, fs0, cf_version, hit, ext, buf, conf_write, dlreq, fetchVars, gateVars, pureVars, appVars>>

\* process, 336-349: the download is the binary; written as it is.
SaveRaw(s) ==
    /\ pc[s] = "unpack"
    /\ ext[s] \in {".exe", "", ".com", ".appimage", ".AppImage"}
    /\ WriteFile(s, Created(fs[s], buf[s].bytes))
    /\ Goto(s, "chmod")
    /\ UNCHANGED <<conf, store, fs0, cf_version, hit, ext, buf, conf_write, dlreq, fetchVars, gateVars, pureVars, appVars>>

\* set_executable of the unix build (363-372; the other build's is a no-op):
\* Err when the file's metadata cannot be read, else the file with mode 0o755
\* when no executable bit is set, else unchanged.
SetExecutable(f) ==
    IF ~HasExecBit(f.mode) THEN File(f.data, Mode755) ELSE f

\* process, 351-358: set_executable unless ext is ".exe", then Ok(Some(version)).
Finalize(s) ==
    /\ pc[s] = "chmod"
    /\ IF ext[s] # ".exe"
       THEN IF ~fs[s].exists
            THEN /\ End(s, "err", "set_executable_error")
                 /\ UNCHANGED fs
            ELSE /\ fs' = [fs EXCEPT ![s] = SetExecutable(fs[s])]
                 /\ Goto(s, "reload")
       ELSE /\ Goto(s, "reload")
            /\ UNCHANGED fs
    /\ UNCHANGED <<conf, store, fs0, cf_version, hit, ext, buf, conf_write, dlreq, fwrites, fetchVars, gateVars, pureVars, appVars>>

\* Reload taking the Ini the run was started with instead of the file.
MutReload(s) ==
    /\ pc[s] = "reload"
    /\ conf_write' = [conf_write EXCEPT ![s] = conf]
    /\ Goto(s, "write")
    /\ UNCHANGED <<conf, store, fs, fs0, cf_version, hit, ext, buf, dlreq, fwrites, fetchVars, gateVars, pureVars, appVars>>

\* run_section, 223: `tini::Ini::from_file(&filename).unwrap()`.
Reload(s) ==
    /\ pc[s] = "reload"
    /\ conf_write' = [conf_write EXCEPT ![s] = store]
    /\ Goto(s, "write")
    /\ UNCHANGED <<conf, store, fs, fs0, cf_version, hit, ext, buf, dlreq, fwrites, fetchVars, gateVars, pureVars, appVars>>

\* run_section, 224-231: `.section(section).item("version", ..).to_file(..)`.
WriteStore(s) ==
    /\ pc[s] = "write"
    /\ store' = IniItemVersion(conf_write[s], s, hit[s].version)
    /\ End(s, "ok", "updated")
    /\ UNCHANGED <<conf, fs, fs0, cf_version, hit, ext, buf, conf_write, dlreq, fwrites, fetchVars, gateVars, pureVars, appVars>>

Next ==
    \E s \in Sections :
        \/ Resolve(s)
        \/ PageFails(s)
        \/ PageNoHit(s)
        \/ PageHit(s)
        \/ Gate(s)
        \/ ChooseExt(s)
        \/ DownloadFails(s)
        \/ Download(s)
        \/ UnpackTar(s)
        \/ UnpackZip(s)
        \/ UnpackGz(s)
        \/ SaveRaw(s)
        \/ Finalize(s)
        \/ Reload(s)
        \/ WriteStore(s)

Spec == Init /\ [][Next]_vars

(***************************************************************************)
(* main (src/src/main.rs 82-89): the sections of the file run one after    *)
(* the other, `run_section(section, &conf, filename)?` in a for loop.      *)
(***************************************************************************)

\* `for (section, hm) in conf.iter()`: the order of the sections in the file.
SectionOrder == <<"a", "b">>

\* The loop has come to section s: every section before it was run, and
\* its run_section returned Ok.  An Err leaves main through `?`, a panic
\* ends the process: the loop goes no further.
MainTurn(s) ==
    \A i, j \in 1..Len(SectionOrder) :
        (SectionOrder[j] = s /\ i < j)
            => pc[SectionOrder[i]] = "done" /\ result[SectionOrder[i]] = "ok"

NextMain ==
    \E s \in Sections :
        \/ MainTurn(s) /\ Resolve(s)
        \/ MainTurn(s) /\ PageFails(s)
        \/ MainTurn(s) /\ PageNoHit(s)
        \/ MainTurn(s) /\ PageHit(s)
        \/ MainTurn(s) /\ Gate(s)
        \/ MainTurn(s) /\ ChooseExt(s)
        \/ MainTurn(s) /\ DownloadFails(s)
        \/ MainTurn(s) /\ Download(s)
        \/ MainTurn(s) /\ UnpackTar(s)
        \/ MainTurn(s) /\ UnpackZip(s)
        \/ MainTurn(s) /\ UnpackGz(s)
        \/ MainTurn(s) /\ SaveRaw(s)
        \/ MainTurn(s) /\ Finalize(s)
        \/ MainTurn(s) /\ Reload(s)
        \/ MainTurn(s) /\ WriteStore(s)

\* main runs on until it returns: nothing in the loop waits.
SpecMain == Init /\ [][NextMain]_vars /\ WF_vars(NextMain)

(***************************************************************************)
(* The version gate on its own, over every pair of version strings up to   *)
(* a length.                                                               *)
(***************************************************************************)

\* Longest version string of SpecGate.
MaxVersionLen == 2

\* Characters of a version string: '.', '0', '1', '9'.
VersionChars == {46, 48, 49, 57}

RECURSIVE StringsUpTo(_)
StringsUpTo(n) ==
    IF n = 0 THEN {<<>>}
    ELSE LET shorter == StringsUpTo(n - 1)
         IN shorter \cup {Append(x, c) : x \in shorter, c \in VersionChars}

GateVersions == StringsUpTo(MaxVersionLen)

InitGate ==
    /\ AppIdle
    /\ FetchIdle
    /\ RunIdle
    /\ PureIdle
    /\ gate_in \in [exists : BOOLEAN,
                    found : GateVersions,
                    recorded : {NoVersion} \cup {SomeVersion(v) : v \in GateVersions}]
    /\ gate_out = "start"

GateStep ==
    /\ gate_out = "start"
    /\ gate_out' = GateDecision(gate_in.exists, gate_in.found, gate_in.recorded)
    /\ UNCHANGED <<gate_in, fetchVars, runVars, pureVars, appVars>>

NextGate == GateStep

SpecGate == InitGate /\ [][NextGate]_vars

(***************************************************************************)
(* extract_data_from_json (lib.rs 420-458) on the results of its two       *)
(* JSONPath queries.                                                       *)
(***************************************************************************)

\* A JSON value a query returns: a string, or a value that is no string.
JStr(s) == [str |-> TRUE, s |-> s]
JOther == [str |-> FALSE, s |-> <<>>]

\* `.as_str().unwrap_or("")`
AsStrOrEmpty(v) == IF v.str THEN v.s ELSE <<>>

\* ReSearch as a match of the whole text.
MutReSearch(pattern, text) == text = pattern

\* `Regex::new(&conf.anchor_text)` and `re_pat.is_match(&u)`, for a pattern
\* without metacharacters: the pattern occurs somewhere in the text.
ReSearch(pattern, text) ==
    \E i \in 1..(Len(text) + 1) :
        /\ i + Len(pattern) - 1 <= Len(text)
        /\ \A k \in 1..Len(pattern) : text[i + k - 1] = pattern[k]

\* `finder.find_slice()`: the results of the query; jsonpath_rust gives the
\* one-element list [NoValue] for a query without a result when `novalue`,
\* and NoValue's to_data() is Null.
FindSlice(results, novalue) ==
    IF results = <<>> /\ novalue THEN <<JOther>> ELSE results

\* The loop `for u in urls`: the index of the first url the pattern is found
\* in, 0 when there is none.
FirstUrl(urls, pattern) ==
    LET found == {i \in 1..Len(urls) : ReSearch(pattern, urls[i])}
    IN IF found = {} THEN 0 ELSE CHOOSE i \in found : \A j \in found : i <= j

\* extract_data_from_json: `&finder.find_slice()[0]` panics on an empty list.
ExtractDataFromJson(vres, ures, pattern, novalue) ==
    LET vs == FindSlice(vres, novalue)
        us == FindSlice(ures, novalue)
        urls == [i \in 1..Len(us) |-> AsStrOrEmpty(us[i])]
        k == FirstUrl(urls, pattern)
    IN IF vs = <<>> THEN [kind |-> "panic"]
       ELSE IF k = 0 THEN [kind |-> "none"]
       ELSE [kind |-> "hit", version |-> AsStrOrEmpty(vs[1]), download_url |-> urls[k]]

\* Most results of the anchor query.
MaxCandidates == 3

JsonUrls == {<<"b", "a">>, <<"a", "b", "a">>, <<"a", "b">>}
JsonCandidates == {JStr(u) : u \in JsonUrls} \cup {JOther}
JsonPatterns == {<<"a", "b">>, <<"b">>}
JsonVersionResults == {<<>>, <<JStr(V1)>>, <<JStr(V9), JStr(V1)>>, <<JOther, JStr(V1)>>}

RECURSIVE SeqsUpTo(_, _)
SeqsUpTo(S, n) ==
    IF n = 0 THEN {<<>>}
    ELSE LET shorter == SeqsUpTo(S, n - 1)
         IN shorter \cup {Append(x, c) : x \in shorter, c \in S}

InitJson ==
    /\ AppIdle
    /\ FetchIdle
    /\ RunIdle
    /\ GateIdle
    /\ rs_in = [kind |-> "idle"]
    /\ rs_out = [kind |-> "idle"]
    /\ fn_in \in [kind : {"json"},
                   vres : JsonVersionResults,
                   ures : SeqsUpTo(JsonCandidates, MaxCandidates),
                   pattern : JsonPatterns,
                   novalue : BOOLEAN]
    /\ fn_out = [kind |-> "start"]

JsonStep ==
    /\ fn_in.kind = "json"
    /\ fn_out.kind = "start"
    /\ fn_out' = ExtractDataFromJson(fn_in.vres, fn_in.ures, fn_in.pattern, fn_in.novalue)
    /\ UNCHANGED <<fn_in, rs_in, rs_out, fetchVars, runVars, gateVars, appVars>>

NextJson == JsonStep

SpecJson == InitJson /\ [][NextJson]_vars

(***************************************************************************)
(* The three archive extractors (lib.rs 583-631, 653-730) on their own.    *)
(***************************************************************************)

\* extract_target_from_tarfile / extract_target_from_tarxz on a readable
\* archive: `file.unpack(&target_filename)` of the first matching entry.
TarExtract(entries, pattern, old) ==
    LET i == FirstMatch(entries, pattern)
    IN IF i = 0 THEN old ELSE File(entries[i].data, entries[i].mode)

\* extract_target_from_zipfile on a readable archive: the files it can leave
\* at the destination.
ZipExtract(entries, pattern, old) ==
    {IF i = 0 THEN old ELSE Created(old, entries[i].data) :
        i \in ZipFirstMatches(entries, pattern)}

\* Most entries of an archive.
MaxEntries == 3

\* The member pattern, and entries: two whose base name is the pattern, one
\* with the pattern as a directory of its path only, one without it.
ArchPattern == "target"
ArchEntries ==
    {Entry(<<"x", "target">>, "t1", Mode755),
     Entry(<<"y", "target">>, "t2", Mode644),
     Entry(<<"target", "docs">>, "d", Mode644),
     Entry(<<"README">>, "r", Mode644)}

InitArchive ==
    /\ AppIdle
    /\ FetchIdle
    /\ RunIdle
    /\ GateIdle
    /\ rs_in = [kind |-> "idle"]
    /\ rs_out = [kind |-> "idle"]
    /\ fn_in \in [kind : {"archive"},
                   ext : {".tar.gz", ".tar.xz", ".zip"},
                   entries : SeqsUpTo(ArchEntries, MaxEntries),
                   old : InitFiles]
    /\ fn_out = [kind |-> "start"]

TarStep ==
    /\ fn_in.kind = "archive"
    /\ fn_in.ext \in {".tar.gz", ".tar.xz"}
    /\ fn_out.kind = "start"
    /\ fn_out' = [kind |-> "done",
                  file |-> TarExtract(fn_in.entries, ArchPattern, fn_in.old)]
    /\ UNCHANGED <<fn_in, rs_in, rs_out, fetchVars, runVars, gateVars, appVars>>

ZipStep ==
    /\ fn_in.kind = "archive"
    /\ fn_in.ext = ".zip"
    /\ fn_out.kind = "start"
    /\ \E f \in ZipExtract(fn_in.entries, ArchPattern, fn_in.old) :
          fn_out' = [kind |-> "done", file |-> f]
    /\ UNCHANGED <<fn_in, rs_in, rs_out, fetchVars, runVars, gateVars, appVars>>

NextArchive == TarStep \/ ZipStep

SpecArchive == InitArchive /\ [][NextArchive]_vars

(***************************************************************************)
(* parse_html_page, 525-542: the download url of an anchor, from its href  *)
(* and the url of the page.                                                *)
(***************************************************************************)

\* A url: scheme, host, the segments of its path ("/" is <<>>, a path that
\* ends in "/" has "" as last segment), and whether it has a query.
Url(scheme, host, path, query) ==
    [scheme |-> scheme, host |-> host, path |-> path, query |-> query]

\* An href as written in the page: "abs" scheme://host/segs, "scheme_rel"
\* //host/segs, "root" /segs, "rel" segs.
Href(form, scheme, host, segs) ==
    [form |-> form, scheme |-> scheme, host |-> host, segs |-> segs]

\* Path segments whose text begins with "http".
HttpPrefixed == {"httpd"}

\* `href.starts_with("http")`
StartsWithHttp(h) ==
    \/ h.form = "abs" /\ h.scheme \in {"http", "https"}
    \/ h.form = "rel" /\ h.segs[1] \in HttpPrefixed

\* `href.starts_with('/')`
StartsWithSlash(h) == h.form \in {"scheme_rel", "root"}

\* `href.starts_with("../")`
StartsWithDotDotSlash(h) == h.form = "rel" /\ Len(h.segs) >= 2 /\ h.segs[1] = ".."

\* The url parser's removal of dot segments: ".." drops the segment before
\* it, if there is one, "." is dropped.
RECURSIVE RemoveDots(_)
RemoveDots(segs) ==
    IF segs = <<>> THEN <<>>
    ELSE LET before == RemoveDots(SubSeq(segs, 1, Len(segs) - 1))
             last == segs[Len(segs)]
         IN IF last = ".."
            THEN IF before = <<>> THEN <<>> ELSE SubSeq(before, 1, Len(before) - 1)
            ELSE IF last = "." THEN before
            ELSE Append(before, last)

\* All of a path but its last segment.
Front(path) == IF path = <<>> THEN <<>> ELSE SubSeq(path, 1, Len(path) - 1)

\* `u.set_query(None)`
SetQueryNone(u) == [u EXCEPT !.query = FALSE]

\* `u.path_segments_mut().unwrap().clear()`
ClearPath(u) == [u EXCEPT !.path = <<>>]

\* `Url::join`: the reference resolved against the base.
UrlJoin(base, h) ==
    IF h.form = "abs" THEN Url(h.scheme, h.host, RemoveDots(h.segs), FALSE)
    ELSE IF h.form = "scheme_rel" THEN Url(base.scheme, h.host, RemoveDots(h.segs), FALSE)
    ELSE IF h.form = "root" THEN Url(base.scheme, base.host, RemoveDots(h.segs), FALSE)
    ELSE Url(base.scheme, base.host, RemoveDots(Front(base.path) \o h.segs), FALSE)

\* The download url as a string: the href itself, or a url written out.
Verbatim(h) == [verbatim |-> TRUE, scheme |-> h.scheme, host |-> h.host, path |-> h.segs]
Written(u) == [verbatim |-> FALSE, scheme |-> u.scheme, host |-> u.host, path |-> u.path]

\* `let download_url = if href.starts_with("http") {..} else if
\* href.starts_with('/') || href.starts_with("../") {..} else {..}`
HrefToDownloadUrl(page, h) ==
    IF StartsWithHttp(h) THEN Verbatim(h)
    ELSE IF StartsWithSlash(h) \/ StartsWithDotDotSlash(h)
    THEN Written(UrlJoin(ClearPath(SetQueryNone(page)), h))
    ELSE Written(UrlJoin(SetQueryNone(page), h))

\* Most segments of an href's path.
MaxHrefSegs == 3

\* Pages: https://example.com/sub/page, https://example.com/a/b/page?q,
\* http://example.com/, https://example.com/a/b/c/.
Pages ==
    {Url("https", "example.com", <<"sub", "page">>, FALSE),
     Url("https", "example.com", <<"a", "b", "page">>, TRUE),
     Url("http", "example.com", <<>>, FALSE),
     Url("https", "example.com", <<"a", "b", "c", "">>, FALSE)}

\* Paths of hrefs: up to MaxHrefSegs segments, the last one a name.
HrefSegs == {"..", "rel", "path", "httpd"}
HrefPaths ==
    {p \in SeqsUpTo(HrefSegs, MaxHrefSegs) : p # <<>> /\ p[Len(p)] # ".."}

Hrefs ==
    {Href("abs", "https", "other.com", <<"x">>),
     Href("abs", "http", "other.com", <<"path", "x">>),
     Href("scheme_rel", "", "cdn.com", <<"path", "x">>)}
    \cup {Href("root", "", "", p) : p \in HrefPaths}
    \cup {Href("rel", "", "", p) : p \in HrefPaths}

InitHref ==
    /\ AppIdle
    /\ FetchIdle
    /\ RunIdle
    /\ GateIdle
    /\ rs_in = [kind |-> "idle"]
    /\ rs_out = [kind |-> "idle"]
    /\ fn_in \in [kind : {"href"}, page : Pages, href : Hrefs]
    /\ fn_out = [kind |-> "start"]

HrefStep ==
    /\ fn_in.kind = "href"
    /\ fn_out.kind = "start"
    /\ fn_out' = [kind |-> "done", download_url |-> HrefToDownloadUrl(fn_in.page, fn_in.href)]
    /\ UNCHANGED <<fn_in, rs_in, rs_out, fetchVars, runVars, gateVars, appVars>>

NextHref == HrefStep

SpecHref == InitHref /\ [][NextHref]_vars

(***************************************************************************)
(* run_section, 148-210, with insert_fields_from_template (107-140): the   *)
(* Config of a section from its own fields and its template.               *)
(***************************************************************************)

\* A value of the file is a list of pieces: a literal text, or a `{key}`.
Lit(text) == [ph |-> FALSE, t |-> text]
Ph(key) == [ph |-> TRUE, t |-> key]

\* A key of a section or of a template: absent, or present with its value.
NoField == [some |-> FALSE, v |-> <<>>]
Field(v) == [some |-> TRUE, v |-> v]

\* The keys run_section and strfmt look at.
Keys == {"template", "page_url", "anchor_tag", "anchor_text", "version_tag", "method",
         "target_filename_to_extract_from_archive", "desired_filename", "version",
         "project"}

RECURSIVE Substituted(_, _)
\* The pieces of `value` with every `{key}` replaced by the raw value of key.
Substituted(value, values) ==
    IF value = <<>> THEN <<>>
    ELSE LET head == value[1]
         IN (IF head.ph THEN values[head.t].v ELSE <<head>>)
            \o Substituted(Tail(value), values)

\* `strfmt(value, &tmp)`: one pass of substitution; Err for a `{key}` the
\* map does not hold.
Strfmt(value, values) ==
    IF \E i \in 1..Len(value) : value[i].ph /\ ~values[value[i].t].some
    THEN [ok |-> FALSE, v |-> <<>>]
    ELSE [ok |-> TRUE, v |-> Substituted(value, values)]

\* strfmt of a key that may be absent: nothing to fail when it is.
StrfmtField(f, values) ==
    IF f.some THEN Strfmt(f.v, values) ELSE [ok |-> TRUE, v |-> <<>>]

\* The templates of the file: a release page built from `{project}` that
\* gives every template field, and one that gives an anchor_tag only.
Templates ==
    [gh |-> [page_url |-> Field(<<Lit("https://github.com/"), Ph("project"), Lit("/releases")>>),
             anchor_tag |-> Field(<<Lit("tpl_anchor")>>),
             version_tag |-> Field(<<Lit("tpl_version")>>),
             method |-> Field(<<Lit("api_json")>>)],
     plain |-> [page_url |-> NoField,
                anchor_tag |-> Field(<<Lit("tpl_anchor")>>),
                version_tag |-> NoField,
                method |-> NoField]]

TemplateFields == {"page_url", "anchor_tag", "version_tag", "method"}

\* `values.get("template")` names a template of `templates`.
TemplateOf(values) ==
    IF values["template"].some /\ values["template"].v[1].t \in DOMAIN Templates
    THEN Templates[values["template"].v[1].t]
    ELSE [f \in TemplateFields |-> NoField]

\* insert_fields_from_template returns Err: the template is not in the
\* table, or strfmt fails on one of its fields.
TemplateError(values) ==
    /\ values["template"].some
    /\ \/ values["template"].v[1].t \notin DOMAIN Templates
       \/ \E f \in TemplateFields : ~StrfmtField(TemplateOf(values)[f], values).ok

\* A field of cf after insert_fields_from_template: the template's value,
\* substituted, or the default of Config::new().
FromTemplate(f, values) == StrfmtField(TemplateOf(values)[f], values).v

\* MissingPageUrl looking at sections without a template only.
MutMissingPageUrl(values) ==
    ~values["page_url"].some /\ ~values["template"].some

\* run_section 153-167: no page_url in the section and none in cf.
MissingPageUrl(values) ==
    ~values["page_url"].some /\ FromTemplate("page_url", values) = <<>>

\* The keys of the section that run_section passes through strfmt.
OwnSubstituted ==
    {"anchor_tag", "anchor_text", "version_tag",
     "target_filename_to_extract_from_archive", "version", "desired_filename"}

\* run_section 182-196: the name to look for in the archive.
ResolvedTarget(section, values) ==
    IF values["target_filename_to_extract_from_archive"].some
    THEN Field(Strfmt(values["target_filename_to_extract_from_archive"].v, values).v)
    ELSE Field(<<Lit(section)>>)

\* ResolvedDesired without the fall-back to the target filename.
MutResolvedDesired(section, values) ==
    IF values["desired_filename"].some
    THEN Field(Strfmt(values["desired_filename"].v, values).v)
    ELSE NoField

\* run_section 202-210: the name of the file to write.
ResolvedDesired(section, values) ==
    IF values["desired_filename"].some
    THEN Field(Strfmt(values["desired_filename"].v, values).v)
    ELSE ResolvedTarget(section, values)

\* The Config run_section hands to process.  `method` is set by
\* insert_fields_from_template only: run_section does not read the
\* section's own `method`.
ResolvedConfig(section, values) ==
    [method |-> FromTemplate("method", values),
     page_url |-> IF values["page_url"].some THEN values["page_url"].v
                  ELSE FromTemplate("page_url", values),
     anchor_tag |-> IF values["anchor_tag"].some
                    THEN Strfmt(values["anchor_tag"].v, values).v
                    ELSE FromTemplate("anchor_tag", values),
     anchor_text |-> StrfmtField(values["anchor_text"], values).v,
     version_tag |-> IF values["version_tag"].some
                     THEN Field(Strfmt(values["version_tag"].v, values).v)
                     ELSE IF TemplateOf(values)["version_tag"].some
                     THEN Field(FromTemplate("version_tag", values))
                     ELSE NoField,
     target_filename_to_extract_from_archive |-> ResolvedTarget(section, values),
     version |-> IF values["version"].some
                 THEN Field(Strfmt(values["version"].v, values).v)
                 ELSE NoField,
     desired_filename |-> ResolvedDesired(section, values)]

NoConfig ==
    [method |-> <<>>, page_url |-> <<>>, anchor_tag |-> <<>>, anchor_text |-> <<>>,
     version_tag |-> NoField, target_filename_to_extract_from_archive |-> NoField,
     version |-> NoField, desired_filename |-> NoField]

\* run_section up to the call of process: Err from the template or from a
\* strfmt, the early Ok(()) without page_url, or the Config for process.
ResolveSection(section, values) ==
    IF TemplateError(values)
    THEN [kind |-> "err", why |-> "template_error", cf |-> NoConfig]
    ELSE IF MissingPageUrl(values)
    THEN [kind |-> "skip", why |-> "missing_page_url", cf |-> NoConfig]
    ELSE IF \E f \in OwnSubstituted : ~StrfmtField(values[f], values).ok
    THEN [kind |-> "err", why |-> "strfmt_error", cf |-> NoConfig]
    ELSE [kind |-> "process", why |-> "none", cf |-> ResolvedConfig(section, values)]

\* target_file_already_exists, 235-241: the name it checks; `panic!("This
\* should be impossible")` when cf has neither name.
FilenameToCheck(cf) ==
    IF cf.desired_filename.some THEN [impossible |-> FALSE, v |-> cf.desired_filename.v]
    ELSE IF cf.target_filename_to_extract_from_archive.some
    THEN [impossible |-> FALSE, v |-> cf.target_filename_to_extract_from_archive.v]
    ELSE [impossible |-> TRUE, v |-> <<>>]

\* The sections the resolution is looked at for.
SectionValues ==
    [template : {NoField, Field(<<Lit("gh")>>), Field(<<Lit("plain")>>),
                 Field(<<Lit("absent")>>)},
     page_url : {NoField, Field(<<Lit("own")>>),
                 Field(<<Lit("https://example.com/"), Ph("project")>>)},
     anchor_tag : {NoField, Field(<<Lit("own")>>)},
     anchor_text : {Field(<<Lit("own")>>)},
     version_tag : {NoField, Field(<<Lit("own")>>)},
     method : {NoField, Field(<<Lit("api_json")>>), Field(<<Lit("scrape")>>)},
     target_filename_to_extract_from_archive :
         {NoField, Field(<<Lit("rg")>>), Field(<<Ph("project")>>)},
     desired_filename : {NoField, Field(<<Lit("ripgrep")>>)},
     version : {NoField, Field(<<Lit("1.0")>>)},
     project : {NoField, Field(<<Lit("rg")>>)}]

InitResolve ==
    /\ AppIdle
    /\ FetchIdle
    /\ GateIdle
    /\ rs_in \in [kind : {"section"}, name : Sections, values : SectionValues]
    /\ rs_out = [kind |-> "start"]
    /\ fn_in = [kind |-> "idle"]
    /\ fn_out = [kind |-> "idle"]
    /\ conf = [s \in Sections |-> [page_url |-> NoString, version |-> NoVersion]]
    /\ store = conf
    /\ fs \in [Sections -> InitFiles]
    /\ fs0 = fs
    /\ pc = [s \in Sections |-> IF s = rs_in.name THEN "start" ELSE "idle"]
    /\ cf_version = [s \in Sections |-> NoVersion]
    /\ hit = [s \in Sections |-> NoHit]
    /\ ext = [s \in Sections |-> "none"]
    /\ buf = [s \in Sections |-> NoBuf]
    /\ conf_write = [s \in Sections |-> conf]
    /\ result = [s \in Sections |-> "running"]
    /\ why = [s \in Sections |-> "none"]
    /\ dlreq = [s \in Sections |-> 0]
    /\ fwrites = [s \in Sections |-> 0]

\* run_section from its start to the call of process (or to its return).
ResolveStep(s) ==
    /\ rs_in.kind = "section"
    /\ rs_in.name = s
    /\ pc[s] = "start"
    /\ LET r == ResolveSection(s, rs_in.values) IN
          /\ rs_out' = r
          /\ IF r.kind = "err" THEN End(s, "err", r.why)
             ELSE IF r.kind = "skip" THEN End(s, "ok", r.why)
             ELSE Goto(s, "fetch")
    /\ UNCHANGED <<rs_in, fn_in, fn_out, conf, store, fs, fs0, cf_version, hit, ext, buf,
                   conf_write, dlreq, fwrites, fetchVars, gateVars, appVars>>

NextResolve == \E s \in Sections : ResolveStep(s)

SpecResolve == InitResolve /\ [][NextResolve]_vars

(***************************************************************************)
(* process, 270-349: the container of a download, from the url alone.      *)
(***************************************************************************)

\* process, 328-349: what is done with the downloaded bytes for each `ext`.
ContainerOf(e) ==
    IF e = ".tar.xz" THEN "tar+xz"
    ELSE IF e = ".zip" THEN "zip"
    ELSE IF e = ".tar.gz" THEN "tar+gzip"
    ELSE IF e = ".gz" THEN "gzip"
    ELSE IF e \in {".exe", "", ".com", ".appimage", ".AppImage"} THEN "raw"
    ELSE "none"

\* Download urls (absolute, as the extractors give them): a stem with or
\* without a dot at its end, a name without dots of 1..MaxNameLen characters,
\* and what the url ends in.
MaxNameLen == 9
UrlStems == { <<"h", "t", "t", "p", ":", "/", "/", "s", "/">>,
              <<"h", "t", "t", "p", ":", "/", "/", "s", "/", "v", ".">> }
UrlNames == { [i \in 1..n |-> "x"] : n \in 1..MaxNameLen }
UrlTails == { <<>>, TarGz, Tgz, Gz, TarXz, Txz, Zip, Exe, Com, Appimage, AppImage,
              <<".", "d", "e", "b">>, <<".", "t", "a", "r">>, <<".", "x", "z">>,
              <<".", "g", "z", ".", "z", "i", "p">>, <<".", "z", "i", "p", ".", "g", "z">>,
              <<".", "e", "x", "e", ".", "t", "g", "z">> }
ExtUrls == { st \o nm \o tl : st \in UrlStems, nm \in UrlNames, tl \in UrlTails }

InitExt ==
    /\ AppIdle
    /\ FetchIdle
    /\ RunIdle
    /\ GateIdle
    /\ rs_in = [kind |-> "idle"]
    /\ rs_out = [kind |-> "idle"]
    /\ fn_in \in [kind : {"ext"}, download_url : ExtUrls]
    /\ fn_out = [kind |-> "start"]

\* The chain and the dispatch on one url.
ExtStep ==
    /\ fn_in.kind = "ext"
    /\ fn_out.kind = "start"
    /\ fn_out' = [kind |-> "done",
                  ext |-> ExtOf(fn_in.download_url),
                  container |-> ContainerOf(ExtOf(fn_in.download_url))]
    /\ UNCHANGED <<fn_in, rs_in, rs_out, fetchVars, runVars, gateVars, appVars>>

NextExt == ExtStep

SpecExt == InitExt /\ [][NextExt]_vars

(***************************************************************************)
(* parse_html_page, 510-576: the hit of a fetched page.                    *)
(***************************************************************************)

Sp == " "

RECURSIVE TrimStart(_)
TrimStart(t) == IF t # <<>> /\ Head(t) = Sp THEN TrimStart(Tail(t)) ELSE t

RECURSIVE TrimEnd(_)
TrimEnd(t) ==
    IF t # <<>> /\ t[Len(t)] = Sp THEN TrimEnd(SubSeq(t, 1, Len(t) - 1)) ELSE t

\* `.trim()`
Trim(t) == TrimEnd(TrimStart(t))

\* `.join(sep)` of the text nodes of an element.
RECURSIVE Join(_, _)
Join(nodes, sep) ==
    IF nodes = <<>> THEN <<>>
    ELSE IF Len(nodes) = 1 THEN nodes[1]
    ELSE nodes[1] \o sep \o Join(Tail(nodes), sep)

\* `story.text().collect::<Vec<_>>().join(" ")` and `link_text.trim()`
LinkText(e) == Trim(Join(e.text, <<Sp>>))

\* `raw_version.text().join("").trim()`
VersionText(e) == Trim(Join(e.text, <<>>))

\* anchor_text is a list of literal alternatives, `a|b` being <<a, b>>.
\* `format!("^{}$", &conf.anchor_text)` puts `^` before the first character
\* and `$` after the last; alternation binds loosest, so `^` belongs to the
\* first alternative and `$` to the last.
Anchored(pattern) ==
    [j \in 1..Len(pattern) |->
        [bol |-> j = 1, lit |-> pattern[j], eol |-> j = Len(pattern)]]

AltMatches(alt, text) ==
    \E i \in 1..(Len(text) + 1) :
        /\ i + Len(alt.lit) - 1 <= Len(text)
        /\ \A k \in 1..Len(alt.lit) : text[i + k - 1] = alt.lit[k]
        /\ alt.bol => i = 1
        /\ alt.eol => i + Len(alt.lit) - 1 = Len(text)

\* `re_pat.is_match(link_text)`
IsMatch(re, text) == \E j \in 1..Len(re) : AltMatches(re[j], text)

NoHref == [some |-> FALSE, h |-> Href("rel", "", "", <<>>)]
SomeHref(h) == [some |-> TRUE, h |-> h]

\* An element of the document: whether the anchor selector and the version
\* selector select it, its href attribute and its text nodes.
Element(anchor, version, href, text) ==
    [anchor |-> anchor, version |-> version, href |-> href, text |-> text]

First(S) == IF S = {} THEN 0 ELSE CHOOSE i \in S : \A j \in S : i <= j

\* parse_html_page from `Selector::parse(&conf.anchor_tag)` on.  anchor_ok:
\* the anchor selector parses; version_tag: "ok", "malformed" or "absent".
ParseHtmlPage(doc, anchor_ok, version_tag, pattern, page) ==
    IF ~anchor_ok THEN [kind |-> "none", why |-> "parser_error"]
    ELSE IF version_tag = "absent" THEN [kind |-> "panic", why |-> "unwrap_none"]
    ELSE IF version_tag = "malformed" THEN [kind |-> "panic", why |-> "unwrap_err"]
    ELSE LET re == Anchored(pattern)
             stories == {i \in 1..Len(doc) :
                            /\ doc[i].anchor
                            /\ doc[i].href.some
                            /\ IsMatch(re, LinkText(doc[i]))}
             versions == {i \in 1..Len(doc) : doc[i].version}
         IN IF stories = {} THEN [kind |-> "none", why |-> "matched_nothing"]
            ELSE IF versions = {} THEN [kind |-> "none", why |-> "no_version_tag"]
            ELSE [kind |-> "hit",
                  version |-> VersionText(doc[First(versions)]),
                  download_url |-> HrefToDownloadUrl(page, doc[First(stories)].href.h)]

\* Most elements of a document.
MaxElems == 3

HtmlPage == Url("https", "example.com", <<"sub", "page">>, FALSE)
HtmlHref1 == SomeHref(Href("abs", "https", "other.com", <<"x">>))
HtmlHref2 == SomeHref(Href("rel", "", "", <<"rel">>))

HtmlElems ==
    { Element(TRUE, FALSE, HtmlHref1, << <<"a">> >>),
      Element(TRUE, FALSE, HtmlHref2, << <<Sp, "a", Sp>> >>),
      Element(TRUE, FALSE, HtmlHref2, << <<"a">>, <<"b">> >>),
      Element(TRUE, FALSE, HtmlHref1, << <<"c", "b">> >>),
      Element(TRUE, FALSE, NoHref, << <<"a">> >>),
      Element(FALSE, FALSE, HtmlHref2, << <<"a">> >>),
      Element(FALSE, TRUE, NoHref, << <<Sp, "v">>, <<"1", Sp>> >>),
      Element(FALSE, TRUE, NoHref, << <<"2">> >>) }

HtmlPatterns == { << <<"a">> >>, << <<"a">>, <<"b">> >>, << <<"a", Sp, "b">> >> }

InitHtml ==
    /\ AppIdle
    /\ FetchIdle
    /\ RunIdle
    /\ GateIdle
    /\ rs_in = [kind |-> "idle"]
    /\ rs_out = [kind |-> "idle"]
    /\ fn_in \in [kind : {"html"},
                   doc : SeqsUpTo(HtmlElems, MaxElems),
                   anchor_ok : BOOLEAN,
                   version_tag : {"ok", "malformed", "absent"},
                   pattern : HtmlPatterns]
    /\ fn_out = [kind |-> "start"]

HtmlStep ==
    /\ fn_in.kind = "html"
    /\ fn_out.kind = "start"
    /\ fn_out' = ParseHtmlPage(fn_in.doc, fn_in.anchor_ok, fn_in.version_tag,
                               fn_in.pattern, HtmlPage)
    /\ UNCHANGED <<fn_in, rs_in, rs_out, fetchVars, runVars, gateVars, appVars>>

NextHtml == HtmlStep

SpecHtml == InitHtml /\ [][NextHtml]_vars

(***************************************************************************)
(* Two runs of one section, the second from the file the first one left.   *)
(***************************************************************************)

RerunSection == "a"

\* What the first run left, kept to compare the second run with.
FirstRun(s) ==
    [kind |-> "second", hit |-> hit[s], wrote |-> fwrites[s] > 0,
     fs |-> fs[s], store |-> store]

InitRerun ==
    /\ AppIdle
    /\ FetchIdle
    /\ GateIdle
    /\ rs_in = [kind |-> "first"]
    /\ rs_out = [kind |-> "idle"]
    /\ fn_in = [kind |-> "idle"]
    /\ fn_out = [kind |-> "idle"]
    /\ conf \in {c \in [Sections -> InitSections] :
                    \A s \in Sections \ {RerunSection} : ~c[s].page_url.some}
    /\ store = conf
    /\ fs \in {f \in [Sections -> InitFiles] :
                  \A s \in Sections \ {RerunSection} : f[s] = Absent}
    /\ fs0 = fs
    /\ pc = [s \in Sections |-> IF s = RerunSection THEN "start" ELSE "idle"]
    /\ cf_version = [s \in Sections |-> NoVersion]
    /\ hit = [s \in Sections |-> NoHit]
    /\ ext = [s \in Sections |-> "none"]
    /\ buf = [s \in Sections |-> NoBuf]
    /\ conf_write = [s \in Sections |-> conf]
    /\ result = [s \in Sections |-> "running"]
    /\ why = [s \in Sections |-> "none"]
    /\ dlreq = [s \in Sections |-> 0]
    /\ fwrites = [s \in Sections |-> 0]

\* Rerun with the Ini of the first run handed to run_section again.
MutRerun(s) ==
    /\ rs_in.kind = "first"
    /\ pc[s] = "done"
    /\ rs_in' = FirstRun(s)
    /\ conf' = conf
    /\ fs0' = fs
    /\ pc' = [pc EXCEPT ![s] = "start"]
    /\ cf_version' = [cf_version EXCEPT ![s] = NoVersion]
    /\ hit' = [hit EXCEPT ![s] = NoHit]
    /\ ext' = [ext EXCEPT ![s] = "none"]
    /\ buf' = [buf EXCEPT ![s] = NoBuf]
    /\ conf_write' = [conf_write EXCEPT ![s] = conf']
    /\ result' = [result EXCEPT ![s] = "running"]
    /\ why' = [why EXCEPT ![s] = "none"]
    /\ dlreq' = [dlreq EXCEPT ![s] = 0]
    /\ fwrites' = [fwrites EXCEPT ![s] = 0]
    /\ UNCHANGED <<store, fs, rs_out, fn_in, fn_out, fetchVars, gateVars, appVars>>

\* The program is started again after the run of the section has ended:
\* `tini::Ini::from_file(&filename)` loads the file as it is now, and
\* run_section starts anew, with counters of the run at zero.
Rerun(s) ==
    /\ rs_in.kind = "first"
    /\ pc[s] = "done"
    /\ rs_in' = FirstRun(s)
    /\ conf' = store
    /\ fs0' = fs
    /\ pc' = [pc EXCEPT ![s] = "start"]
    /\ cf_version' = [cf_version EXCEPT ![s] = NoVersion]
    /\ hit' = [hit EXCEPT ![s] = NoHit]
    /\ ext' = [ext EXCEPT ![s] = "none"]
    /\ buf' = [buf EXCEPT ![s] = NoBuf]
    /\ conf_write' = [conf_write EXCEPT ![s] = conf']
    /\ result' = [result EXCEPT ![s] = "running"]
    /\ why' = [why EXCEPT ![s] = "none"]
    /\ dlreq' = [dlreq EXCEPT ![s] = 0]
    /\ fwrites' = [fwrites EXCEPT ![s] = 0]
    /\ UNCHANGED <<store, fs, rs_out, fn_in, fn_out, fetchVars, gateVars, appVars>>

\* The second run of a section whose first run had a hit: the remote page is
\* as it was and gives that hit again.
PageUnchanged == rs_in.kind = "second" /\ rs_in.hit # NoHit

NextRerun ==
    \/ Resolve(RerunSection)
    \/ ~PageUnchanged /\ PageFails(RerunSection)
    \/ ~PageUnchanged /\ PageNoHit(RerunSection)
    \/ PageHit(RerunSection) /\ (PageUnchanged => hit'[RerunSection] = rs_in.hit)
    \/ Gate(RerunSection)
    \/ ChooseExt(RerunSection)
    \/ DownloadFails(RerunSection)
    \/ Download(RerunSection)
    \/ UnpackTar(RerunSection)
    \/ UnpackZip(RerunSection)
    \/ UnpackGz(RerunSection)
    \/ SaveRaw(RerunSection)
    \/ Finalize(RerunSection)
    \/ Reload(RerunSection)
    \/ WriteStore(RerunSection)
    \/ Rerun(RerunSection)

SpecRerun == InitRerun /\ [][NextRerun]_vars

(***************************************************************************)
(* App::handle_event (app.rs 32-60): the UI state under the events of the  *)
(* workers.                                                                *)
(***************************************************************************)

\* Events handled in one behaviour.
MaxEvents == 4

Checking == <<"C", "h", "e", "c", "k", "i", "n", "g", " ">>

\* `format!("Checking {}", name)`
JobDesc(name) == Checking \o name

\* `format!("Updated {} to version {}", name, version)`
UpdatedDesc(name, version) ==
    <<"U", "p", "d", "a", "t", "e", "d", " ">> \o name
        \o <<" ", "t", "o", " ", "v", "e", "r", "s", "i", "o", "n", " ">> \o version

\* `desc.contains(&name)`: name occurs somewhere in desc.
StrContains(desc, name) ==
    \E i \in 1..(Len(desc) + 1) :
        /\ i + Len(name) - 1 <= Len(desc)
        /\ \A k \in 1..Len(name) : desc[i + k - 1] = name[k]

\* `self.active_jobs.retain(|desc| !desc.contains(&name))`
Retain(jobs, name) == SelectSeq(jobs, LAMBDA desc : ~StrContains(desc, name))

EventVersions == { <<"1">> }
EventProgress == { 50 }

\* The events a worker sends.
ProgressEvent ==
    [kind : {"PackageCheckStart", "PackageCheckEnd", "PackageNeedsUpdate"},
     name : PackageNames]
    \cup [kind : {"PackageUpToDate", "PackageUpdated"},
          name : PackageNames, version : EventVersions]
    \cup [kind : {"PackageDownload"}, name : PackageNames, progress : EventProgress]
    \cup {[kind |-> "NoMoreWork"]}

\* The App after handle_event(e).
HandleEvent(a, e) ==
    IF e.kind = "PackageCheckStart"
    THEN [a EXCEPT !.active_jobs = Append(@, JobDesc(e.name))]
    ELSE IF e.kind \in {"PackageCheckEnd", "PackageUpToDate"}
    THEN [a EXCEPT !.active_jobs = Retain(@, e.name)]
    ELSE IF e.kind = "PackageNeedsUpdate"
    THEN a
    ELSE IF e.kind = "PackageDownload"
    THEN [a EXCEPT !.downloads[e.name] = [some |-> TRUE, v |-> e.progress]]
    ELSE IF e.kind = "PackageUpdated"
    THEN [a EXCEPT !.active_jobs = Retain(@, e.name),
                   !.downloads[e.name] = NoProgress,
                   !.updated = Append(@, UpdatedDesc(e.name, e.version))]
    ELSE [a EXCEPT !.active_jobs = <<>>,
                   !.downloads = [n \in PackageNames |-> NoProgress]]

InitApp ==
    /\ AppIdle
    /\ FetchIdle
    /\ RunIdle
    /\ GateIdle
    /\ PureIdle

\* handle_event is called with an event.
Handle(e) ==
    /\ handled < MaxEvents
    /\ handled' = handled + 1
    /\ event' = e
    /\ app' = HandleEvent(app, e)
    /\ UNCHANGED <<fetchVars, runVars, gateVars, pureVars>>

NextApp == \E e \in ProgressEvent : Handle(e)

SpecApp == InitApp /\ [][NextApp]_vars

(***************************************************************************)
(* Properties.                                                             *)
(***************************************************************************)

\* C1: the reload-set-write sequence at the end of run_section is mutually
\* exclusive across sections (no two sections are between their reload and
\* their write at once), and when every run has ended the store holds the
\* new version of every section that recorded one (no lost update).
C1_ExclusiveStoreUpdate ==
    /\ Cardinality({s \in Sections : pc[s] = "write"}) <= 1
    /\ (\A s \in Sections : pc[s] = "done") =>
          \A s \in Sections :
              why[s] = "updated" => store[s].version = SomeVersion(hit[s].version)

\* Lexicographic order, stated from its definition: x and y agree on their
\* first k characters, and then x has ended and y has not, or the next
\* character of x is the smaller one.
StrictlyBefore(x, y) ==
    \E k \in 0..Min(Len(x), Len(y)) :
        /\ \A i \in 1..k : x[i] = y[i]
        /\ \/ k = Len(x) /\ k < Len(y)
           \/ k < Len(x) /\ k < Len(y) /\ x[k + 1] < y[k + 1]

\* C2: with a version on record, process goes past the version gate if and
\* only if the target file does not exist or the hit's version is greater
\* than the recorded one in lexicographic order.
C2_VersionGate ==
    (gate_out \notin {"idle", "start"} /\ gate_in.recorded.some) =>
        /\ gate_out \in {"proceed", "skip"}
        /\ gate_out = "proceed" <=>
              (~gate_in.exists \/ StrictlyBefore(gate_in.recorded.v, gate_in.found))

\* The gate let "9" through against a recorded "10" with the target present.
C2_Witness ==
    /\ gate_out = "proceed"
    /\ gate_in.exists
    /\ gate_in.found = V9
    /\ gate_in.recorded = SomeVersion(V10)

\* C3: a run of a section without a recorded version whose target file does
\* not exist, once it has a hit and has left the gate, has not faulted and
\* was not skipped: it goes on to the download.
C3_NoRecordedVersionProceeds ==
    \A s \in Sections :
        (/\ ~conf[s].version.some
         /\ ~fs0[s].exists
         /\ hit[s] \in Hits
         /\ pc[s] # "gate")
        => result[s] # "panic" /\ why[s] # "not_newer"

\* C4: the write at the end of a successful run gives a store that differs
\* from the store the run reloaded in the version of its own section only,
\* which is the hit's version.
C4_WriteFrame ==
    [][\A s \in Sections :
          (pc[s] = "write" /\ pc'[s] = "done") =>
              /\ store'[s].version = SomeVersion(hit[s].version)
              /\ store'[s].page_url = conf_write[s][s].page_url
              /\ \A t \in Sections \ {s} : store'[t] = conf_write[s][t]]_vars

\* Both sections recorded a new version, one after the other, and both are
\* in the store.
C4_Witness ==
    /\ \A s \in Sections :
          /\ why[s] = "updated"
          /\ store[s].version = SomeVersion(hit[s].version)
          /\ store[s].version # conf[s].version
          /\ store[s].page_url = conf[s].page_url

NegativeOutcomes ==
    {"no_anchor_match", "no_version_element", "not_newer", "unknown_extension"}

\* A run that was at no point asked for the artifact and touched nothing.
NothingDone(s) ==
    /\ result[s] = "ok"
    /\ dlreq[s] = 0
    /\ fwrites[s] = 0
    /\ fs[s] = fs0[s]
    /\ store[s] = conf[s]

\* C5: a run that ends at a normal negative outcome (no anchor matches, no
\* version element, version not newer with the target present, unrecognized
\* extension) ends with success, has issued no artifact download request,
\* has written no file and has not changed the store; and a run whose hit is
\* not newer with the target present, or whose hit's URL has an unrecognized
\* extension, ends at that outcome.
C5_NegativeOutcomes ==
    \A s \in Sections :
        /\ why[s] \in NegativeOutcomes => NothingDone(s)
        /\ (/\ pc[s] = "done"
            /\ hit[s] \in Hits
            /\ cf_version[s].some
            /\ \/ fs0[s].exists /\ ~StrictlyBefore(cf_version[s].v, hit[s].version)
               \/ ExtOf(hit[s].download_url) = "unknown")
           => why[s] \in {"not_newer", "unknown_extension"}

\* One section ended at an unrecognized extension of a newer hit with its
\* target present, the other at a hit that is not newer.
C5_Witness ==
    \E s, t \in Sections :
        /\ why[s] = "unknown_extension"
        /\ fs0[s].exists
        /\ why[t] = "not_newer"
        /\ NothingDone(s)
        /\ NothingDone(t)

\* C6: a run whose downloaded tar.gz, tar.xz or zip archive has no entry
\* matching the member pattern ends without an error, whether the target
\* file exists or not.
C6_NoMemberIsNoError ==
    \A s \in Sections :
        (/\ pc[s] = "done"
         /\ ext[s] \in {".tar.gz", ".tar.xz", ".zip"}
         /\ buf[s].valid
         /\ FirstMatch(buf[s].entries, s) = 0)
        => result[s] = "ok"

AllTransient(codes) == \A i \in 1..Len(codes) : codes[i] \in TransientStatus

\* C7: a page fetch issues at most 10 requests, and a fetch every response of
\* which had a transient status ends with an error only after its 10th request.
C7_TenRequests ==
    /\ requests <= MaxAttempts
    /\ (fpc = "err" /\ Len(responses) = requests /\ AllTransient(responses))
          => requests = MaxAttempts

\* The i-th sleep of a fetch lasts min(60, 4 * i) seconds.
ExpectedSleeps(k) == [i \in 1..k |-> Min(60, 4 * i)]

\* C8: a fetch that has received k < 10 responses, all transient, has not
\* ended with an error; and a fetch that has received k transient responses
\* and then a 2xx response has succeeded on request k + 1 after exactly k
\* sleeps of 4, 8, 12, ... seconds.
C8_BackoffThenSuccess ==
    LET n == Len(responses) IN
    /\ (n = requests /\ n < MaxAttempts /\ AllTransient(responses)) => fpc # "err"
    /\ (/\ n >= 1
        /\ AllTransient(SubSeq(responses, 1, n - 1))
        /\ IsSuccess(responses[n]))
       => /\ fpc \in {"body", "ok"}
          /\ requests = n
          /\ sleeps = ExpectedSleeps(n - 1)

\* C9: a fetch ends with the error of a connection or transport failure only
\* when its attempts are used up: before that the failure is retried.
C9_TransportFailureRetried ==
    (fpc = "err" /\ ferr.kind = "transport") => requests = MaxAttempts

\* C10: when the last response received has a status that is neither 2xx nor
\* one of the seven transient codes, the fetch has ended with an error that
\* carries that status and that response's body, and nothing followed the
\* response: no further request and no sleep.
C10_TerminalStatus ==
    LET n == Len(responses) IN
    (n >= 1 /\ ~(responses[n] >= 200 /\ responses[n] <= 299)
            /\ responses[n] \notin {408, 425, 429, 500, 502, 503, 504})
    => /\ fpc = "err"
       /\ ferr.kind \in {"unexpected", "status"}
       /\ ferr.status = responses[n]
       /\ ferr.body = last_body
       /\ requests = n
       /\ Len(sleeps) = n - 1

\* A 304 on the first request, with nine attempts left, reached the last
\* match arm and ended the fetch with its status and body.
C10_Witness ==
    /\ status_as_error
    /\ fpc = "err"
    /\ responses = <<304>>
    /\ ferr = [kind |-> "unexpected", status |-> 304, body |-> "body2"]
    /\ attempts_remaining = MaxAttempts - 1
    /\ requests = 1
    /\ sleeps = <<>>

\* C11: when the run of a section has failed (run_section returned an error
\* or panicked), every configured section is still run to its own outcome.
C11_FailureIsolation ==
    (\E s \in Sections : result[s] \in {"err", "panic"})
        ~> (\A s \in Sections : pc[s] = "done")

\* The pattern is found in the text: some stretch of the text equals it.
FoundIn(pattern, text) ==
    \E i \in 1..(Len(text) + 1), j \in 0..Len(text) : SubSeq(text, i, j) = pattern

\* C12: when the first result of the version query is a string v,
\* extract_data_from_json returns the hit (v, u), u being the first result
\* of the anchor query, in result order, in which the pattern is found by an
\* unanchored search, the results before u being skipped; when the pattern
\* is found in no result it returns no hit.
C12_JsonFirstMatch ==
    (/\ fn_in.kind = "json"
     /\ fn_out.kind # "start"
     /\ fn_in.vres # <<>>
     /\ fn_in.vres[1].str)
    => LET us == fn_in.ures
           ok(i) == us[i].str /\ FoundIn(fn_in.pattern, us[i].s)
       IN IF \E i \in 1..Len(us) : ok(i)
          THEN \E i \in 1..Len(us) :
                  /\ ok(i)
                  /\ \A j \in 1..(i - 1) : ~ok(j)
                  /\ fn_out = [kind |-> "hit", version |-> fn_in.vres[1].s,
                                download_url |-> us[i].s]
          ELSE fn_out = [kind |-> "none"]

\* The hit is the third result: a value that is no string and a url without
\* the pattern come before it, and the pattern lies inside it.
C12_Witness ==
    /\ fn_in.kind = "json"
    /\ fn_in.vres = <<JStr(V9), JStr(V1)>>
    /\ fn_in.pattern = <<"a", "b">>
    /\ fn_in.ures = <<JOther, JStr(<<"b", "a">>), JStr(<<"a", "b", "a">>)>>
    /\ fn_out = [kind |-> "hit", version |-> V9, download_url |-> <<"a", "b", "a">>]

\* The base name of the entry is the member pattern.
IsTarget(e) == e.path[Len(e.path)] = ArchPattern

\* C13: after the extraction of a tar.gz, tar.xz or zip archive the bytes
\* at the destination are those of the first entry, in archive order, whose
\* base name matches the pattern (the file is as it was when no entry
\* matches): the output depends on the matching entries and their order
\* only, so it is the same on every extraction and whatever the entries
\* that do not match.
C13_FirstMatchExtracted ==
    (fn_in.kind = "archive" /\ fn_out.kind = "done")
    => LET m == SelectSeq(fn_in.entries, IsTarget)
       IN IF m = <<>>
          THEN fn_out.file = fn_in.old
          ELSE fn_out.file.exists /\ fn_out.file.data = m[1].data

\* C14: an absolute href is the download url as it stands; a root-relative
\* href resolves against the root of the page's host; a scheme-relative href
\* resolves to its host with the page's scheme; every other href (rel/path,
\* ../x) resolves against the page url, that is against the directory of
\* the page.
C14_HrefResolution ==
    (fn_in.kind = "href" /\ fn_out.kind = "done")
    => LET h == fn_in.href
           page == fn_in.page
       IN fn_out.download_url =
            IF h.form = "abs"
            THEN [verbatim |-> TRUE, scheme |-> h.scheme, host |-> h.host, path |-> h.segs]
            ELSE IF h.form = "root"
            THEN [verbatim |-> FALSE, scheme |-> page.scheme, host |-> page.host,
                  path |-> RemoveDots(h.segs)]
            ELSE IF h.form = "scheme_rel"
            THEN [verbatim |-> FALSE, scheme |-> page.scheme, host |-> h.host,
                  path |-> RemoveDots(h.segs)]
            ELSE [verbatim |-> FALSE, scheme |-> page.scheme, host |-> page.host,
                  path |-> RemoveDots(Front(page.path) \o h.segs)]

\* C15: in the Config run_section hands to process, the archive member
\* pattern is the section's name when the section gives none, and
\* desired_filename is the resolved member pattern when the section gives
\* none; neither is undefined, so target_file_already_exists never comes to
\* its `This should be impossible` branch.
C15_FilenameDefaults ==
    (rs_in.kind = "section" /\ rs_out.kind = "process")
    => LET given == rs_in.values
           cf == rs_out.cf
       IN /\ cf.target_filename_to_extract_from_archive.some
          /\ cf.desired_filename.some
          /\ ~given["target_filename_to_extract_from_archive"].some
                => cf.target_filename_to_extract_from_archive.v = <<Lit(rs_in.name)>>
          /\ ~given["desired_filename"].some
                => cf.desired_filename = cf.target_filename_to_extract_from_archive
          /\ ~FilenameToCheck(cf).impossible

\* Section b gives neither name and gets its own name for both; it takes
\* its page_url from the template.
C15_Witness ==
    /\ rs_in.kind = "section"
    /\ rs_in.name = "b"
    /\ rs_in.values["template"] = Field(<<Lit("gh")>>)
    /\ ~rs_in.values["target_filename_to_extract_from_archive"].some
    /\ ~rs_in.values["desired_filename"].some
    /\ rs_out.kind = "process"
    /\ rs_out.cf.desired_filename = Field(<<Lit("b")>>)
    /\ FilenameToCheck(rs_out.cf) = [impossible |-> FALSE, v |-> <<Lit("b")>>]
    /\ pc["b"] = "fetch"

\* The value of a template field in a Config.
ConfigValue(cf, f) == IF f = "version_tag" THEN cf.version_tag.v ELSE cf[f]

\* C16: for every field the section's template defines and the section sets
\* as well (page_url, anchor_tag, version_tag, method) the Config holds the
\* section's value; and the method process fetches with is the section's
\* own whenever the section sets one.
C16_SectionOverridesTemplate ==
    (rs_in.kind = "section" /\ rs_out.kind = "process")
    => LET given == rs_in.values
           cf == rs_out.cf
       IN /\ \A f \in TemplateFields :
                (given[f].some /\ TemplateOf(given)[f].some)
                    => ConfigValue(cf, f) = given[f].v
          /\ given["method"].some => cf.method = given["method"].v

\* The section names a template of the table, or none, and neither it nor
\* the template has a page_url.
NoPageUrlAnywhere(given) ==
    /\ ~given["page_url"].some
    /\ \/ ~given["template"].some
       \/ /\ given["template"].v[1].t \in DOMAIN Templates
          /\ ~Templates[given["template"].v[1].t].page_url.some

\* C17: a section without a page_url of its own, whose template (if it has
\* one) resolves and gives none, is skipped: run_section has returned
\* success from its start, with no request made, no file written and the
\* store as it was.
C17_MissingPageUrlSkipped ==
    (/\ rs_in.kind = "section"
     /\ rs_out.kind \notin {"start", "err"}
     /\ NoPageUrlAnywhere(rs_in.values))
    => /\ rs_out.kind = "skip"
       /\ pc[rs_in.name] = "done"
       /\ why[rs_in.name] = "missing_page_url"
       /\ NothingDone(rs_in.name)
       /\ requests = 0
       /\ hit[rs_in.name] = NoHit

\* Section a, with the template that has no page_url, was skipped.
C17_Witness ==
    /\ rs_in.kind = "section"
    /\ rs_in.name = "a"
    /\ rs_in.values["template"] = Field(<<Lit("plain")>>)
    /\ ~rs_in.values["page_url"].some
    /\ rs_out.kind = "skip"
    /\ result["a"] = "ok"
    /\ NothingDone("a")

\* C18: the version is written into the store as reloaded just before the
\* write, not into the Ini the runs were started with: when the runs do not
\* overlap (main runs them one after the other, each from the same `conf`)
\* and all have ended, the store holds the new version of every section
\* that recorded one.
C18_ReloadBeforeWrite ==
    (\A s \in Sections : pc[s] = "done")
    => \A s \in Sections :
          why[s] = "updated" => store[s].version = SomeVersion(hit[s].version)

\* Section a wrote its new version, then section b reloaded the store (no
\* longer the Ini it was started with), found a's version in it and wrote
\* its own: the store holds both.
C18_Witness ==
    /\ \A s \in Sections : pc[s] = "done" /\ why[s] = "updated"
    /\ conf["a"].version # SomeVersion(hit["a"].version)
    /\ conf["b"].version # SomeVersion(hit["b"].version)
    /\ conf_write["b"] # conf
    /\ conf_write["b"]["a"].version = SomeVersion(hit["a"].version)
    /\ store["a"].version = SomeVersion(hit["a"].version)
    /\ store["b"].version = SomeVersion(hit["b"].version)

\* C19: a run records the found version only if it wrote the artifact at
\* desired_filename: a run that extracted nothing never records it.
C19_RecordedOnlyIfWritten ==
    \A s \in Sections : why[s] = "updated" => fwrites[s] >= 1

\* The stages of a run in their order: resolve, fetch the page and extract
\* the hit, gate, choice of the container kind, download, unpack, set
\* permissions, reload and write the version, done.
Stages ==
    <<"start", "fetch", "gate", "ext", "download", "unpack", "chmod", "reload", "write", "done">>
Rank(label) == CHOOSE i \in 1..Len(Stages) : Stages[i] = label

\* C20: a run goes from each stage to the next one or to its end; the
\* artifact is requested only at the download stage of a run whose gate
\* decided to proceed; the store is changed only by the write of a run that
\* got through every earlier stage and ends with success; and a run that
\* ends with an error leaves the store as it was.
C20_StageOrder ==
    [][\A s \in Sections :
          /\ pc'[s] # pc[s]
                => pc'[s] = "done" \/ Rank(pc'[s]) = Rank(pc[s]) + 1
          /\ dlreq'[s] # dlreq[s]
                => /\ pc[s] = "download"
                   /\ hit[s] \in Hits
                   /\ GateDecision(fs0[s].exists, hit[s].version, cf_version[s]) = "proceed"
          /\ (store' # store /\ pc'[s] # pc[s])
                => /\ pc[s] = "write"
                   /\ result'[s] = "ok"
                   /\ dlreq[s] = 1
          /\ result'[s] \in {"err", "panic"}
                => /\ store'[s] = conf[s]
                   /\ result[s] = "running" => store' = store]_vars

\* Section a went through every stage and recorded its version; section b
\* made its download, failed after it and left the store alone.
C20_Witness ==
    /\ pc["a"] = "done"
    /\ why["a"] = "updated"
    /\ dlreq["a"] = 1
    /\ fwrites["a"] = 1
    /\ store["a"].version = SomeVersion(hit["a"].version)
    /\ result["b"] = "err"
    /\ dlreq["b"] = 1
    /\ store["b"] = conf["b"]

KnownSuffixes == {TarGz, Tgz, Gz, TarXz, Txz, Zip, Exe, Com, Appimage, AppImage}

HasKnownSuffix(url) == \E sfx \in KnownSuffixes : EndsWith(url, sfx)

\* The last n characters of s (all of s when it has fewer).
LastChars(s, n) == SubSeq(s, IF Len(s) > n THEN Len(s) - n + 1 ELSE 1, Len(s))

\* C22: a download url that ends in none of the known suffixes is a raw binary
\* exactly when its last 8 characters contain no `.`, and is unrecognized (the
\* run ends with nothing to do) otherwise.
C22_RawBinaryIffNoDot ==
    (fn_in.kind = "ext" /\ fn_out.kind = "done" /\ ~HasKnownSuffix(fn_in.download_url))
    => IF ~Contains(LastChars(fn_in.download_url, 8), ".")
       THEN fn_out.ext = "" /\ fn_out.container = "raw"
       ELSE fn_out.ext = "unknown"

\* The table of the specification, in its order.
TableKind(url) ==
    IF EndsWith(url, TarGz) \/ EndsWith(url, Tgz) THEN "tar+gzip"
    ELSE IF EndsWith(url, TarXz) \/ EndsWith(url, Txz) THEN "tar+xz"
    ELSE IF EndsWith(url, Zip) THEN "zip"
    ELSE IF EndsWith(url, Gz) THEN "gzip"
    ELSE "raw"

\* C23: for a download url that ends in a known suffix, the container the
\* chain of suffix tests of process chooses is the one of the ordered table:
\* .tar.gz/.tgz tar+gzip, .tar.xz/.txz tar+xz, .zip zip, .gz plain gzip,
\* .exe/.com/.appimage/.AppImage raw binary.
C23_ChainEqualsTable ==
    (fn_in.kind = "ext" /\ fn_out.kind = "done" /\ HasKnownSuffix(fn_in.download_url))
    => fn_out.container = TableKind(fn_in.download_url)

C23_Witness ==
    /\ fn_in.kind = "ext"
    /\ fn_out.kind = "done"
    /\ EndsWith(fn_in.download_url, TarGz)
    /\ fn_out.container = "tar+gzip"

\* The text is one of the alternatives of the pattern, over its whole length.
FullMatch(pattern, text) == \E j \in 1..Len(pattern) : pattern[j] = text

\* C24: on a page with a version element, the HTML extractor returns a hit
\* for the first anchor (in document order) whose trimmed text matches
\* anchor_text over its whole length, with that anchor's resolved href and
\* the trimmed text of the first version element; without such an anchor it
\* returns no hit.
C24_HtmlFirstMatch ==
    (/\ fn_in.kind = "html"
     /\ fn_out.kind # "start"
     /\ fn_in.anchor_ok
     /\ fn_in.version_tag = "ok"
     /\ \E i \in 1..Len(fn_in.doc) : fn_in.doc[i].version)
    => LET doc == fn_in.doc
           cands == {i \in 1..Len(doc) :
                        /\ doc[i].anchor
                        /\ doc[i].href.some
                        /\ FullMatch(fn_in.pattern, LinkText(doc[i]))}
           versions == {i \in 1..Len(doc) : doc[i].version}
       IN IF cands = {} THEN fn_out.kind = "none"
          ELSE fn_out = [kind |-> "hit",
                         version |-> VersionText(doc[First(versions)]),
                         download_url |-> HrefToDownloadUrl(HtmlPage, doc[First(cands)].href.h)]

\* C25: a malformed CSS selector, the anchor selector or the version
\* selector, makes the HTML extractor yield no hit and no fault.
C25_MalformedSelectorNoMatch ==
    (/\ fn_in.kind = "html"
     /\ fn_out.kind # "start"
     /\ (~fn_in.anchor_ok \/ fn_in.version_tag = "malformed"))
    => fn_out.kind = "none"

\* C26: in JSON mode, when the version query has no result the extractor
\* returns no hit (so nothing is downloaded or recorded for the run).
C26_NoVersionResultNoHit ==
    (/\ fn_in.kind = "json"
     /\ fn_out.kind # "start"
     /\ fn_in.vres = <<>>)
    => fn_out.kind # "hit"

\* The fields a section sets for the Config, method apart.
SectionFields ==
    {"page_url", "anchor_tag", "anchor_text", "version_tag",
     "target_filename_to_extract_from_archive", "desired_filename"}

\* The value of a field in a Config.
FieldValue(cf, f) ==
    IF f \in {"version_tag", "target_filename_to_extract_from_archive", "desired_filename"}
    THEN cf[f].v
    ELSE cf[f]

\* C27: every field the section sets itself (page_url, anchor_tag,
\* anchor_text, version_tag, the archive member pattern, desired_filename) is
\* in the Config with each `{name}` of its value replaced by the section's
\* value of `name`.
C27_SectionFieldsSubstituted ==
    (rs_in.kind = "section" /\ rs_out.kind = "process")
    => \A f \in SectionFields :
          rs_in.values[f].some
              => FieldValue(rs_out.cf, f) = Substituted(rs_in.values[f].v, rs_in.values)

\* Owner, group and other may execute: the three executable bits of 0o755.
AllExecBits(mode) ==
    /\ (mode \div 64) % 2 = 1
    /\ (mode \div 8) % 2 = 1
    /\ mode % 2 = 1

\* C28: once process has done its post-processing step (the run is at the
\* reload or the write of the store), the file of an artifact that is no
\* .exe has the three executable bits of 0o755, and the file of a .exe has
\* the mode it was written with.
C28_ExecutableBits ==
    \A s \in Sections :
        pc[s] \in {"reload", "write"}
        => IF ext[s] # ".exe"
           THEN fs[s].exists /\ AllExecBits(fs[s].mode)
           ELSE fs[s].mode = Created(fs0[s], "").mode

\* The first run wrote the artifact and recorded the version of its hit, and
\* the artifact was there when the second run started.
WroteAndRecorded(s) ==
    /\ rs_in.kind = "second"
    /\ rs_in.wrote
    /\ rs_in.fs.exists
    /\ rs_in.store[s].version = SomeVersion(rs_in.hit.version)

JobActive(a, n) == \E i \in 1..Len(a.active_jobs) : a.active_jobs[i] = JobDesc(n)

\* C30: a PackageCheckEnd, PackageUpToDate or PackageUpdated event for a
\* package removes from active_jobs only the job of that package: the job of
\* every other package that was active before the event is active after it.
C30_OnlyNamedJobRemoved ==
    [][\A n \in PackageNames :
          (/\ JobActive(app, n)
           /\ event'.kind \in {"PackageCheckEnd", "PackageUpToDate", "PackageUpdated"}
           /\ event'.name # n)
          => JobActive(app', n)]_vars

====
